---- MODULE Spec2Model ----
(***************************************************************************)
(* A model of serena's per-channel protocol state machine                  *)
(* (src/src/serena/channel.py) and of its method payload registry          *)
(* (src/src/serena/payloads/method.py).                                    *)
(*                                                                         *)
(* Scheduling model: cooperative tasks on one event loop.  Every action    *)
(* below is the code a task runs between two suspension points (awaits     *)
(* that really yield).  anyio's Lock and memory object streams are         *)
(* modelled by what channel.py's calls on them do.                         *)
(***************************************************************************)
EXTENDS Integers, Sequences, FiniteSets, TLC

(***************************************************************************)
(* Bounds of the model.                                                    *)
(***************************************************************************)
\* number of user tasks that call queue_declare / basic_publish on the channel
NumTasks == 2
\* the longest message body a task publishes
MaxBody == 3
\* bytes of body carried by one body frame (max_frame_size - 8)
BodyChunk == 2

\* stream_buffer_size, the argument Channel.__init__ sizes the delivery stream with
StreamBufferSize == 2
\* number of delivery frames the peer sends on the channel
MaxDeliveries == 4

Tasks == 1..NumTasks
\* the task that runs Channel._wait_until_open (connection.open_channel)
Opener == NumTasks + 1
Procs == Tasks \cup {Opener}

BodyLens == {0, MaxBody}
QueueNames == {"q"}

\* Optional values: <<>> is None, <<x>> is x
None == <<>>
Some(x) == <<x>>

(***************************************************************************)
(* Frames.  "for" is the task whose request the peer answers with the      *)
(* frame (history: it is not read by the code).                            *)
(***************************************************************************)
DeclareOkValues ==
    { [name |-> "q", message_count |-> 0, consumer_count |-> 0],
      [name |-> "amq.gen-1", message_count |-> 2, consumer_count |-> 1] }

DeclareOkFrame(t, v) ==
    [ftype |-> "MethodFrame", ptype |-> "QueueDeclareOkPayload", for |-> t,
     name |-> v.name, message_count |-> v.message_count,
     consumer_count |-> v.consumer_count]

OpenOkFrame ==
    [ftype |-> "MethodFrame", ptype |-> "ChannelOpenOkPayload", for |-> Opener,
     name |-> "", message_count |-> 0, consumer_count |-> 0]

\* frames other than Channel.OpenOk: a method frame with another payload, and
\* a frame that is not a method frame
OtherFrames ==
    { [ftype |-> "MethodFrame", ptype |-> "FlowOkPayload", for |-> Opener,
       name |-> "", message_count |-> 0, consumer_count |-> 0],
      [ftype |-> "HeartbeatFrame", ptype |-> "", for |-> Opener,
       name |-> "", message_count |-> 0, consumer_count |-> 0] }

\* the Channel.Close payloads the peer closes the channel with
ClosePayloads ==
    { [reply_code |-> 404, reply_text |-> "NOT_FOUND", class_id |-> 50, method_id |-> 20],
      [reply_code |-> 406, reply_text |-> "PRECONDITION_FAILED", class_id |-> 50, method_id |-> 10] }

\* frames written to the transport for this channel
WireMethod(t, ptype, name) ==
    [task |-> t, ftype |-> "method", ptype |-> ptype, name |-> name, body_length |-> 0]
WireHeader(t, len) ==
    [task |-> t, ftype |-> "header", ptype |-> "BasicHeader", name |-> "", body_length |-> len]
WireBody(t) ==
    [task |-> t, ftype |-> "body", ptype |-> "", name |-> "", body_length |-> 0]

VARIABLES
    _open,                  \* Channel._open
    _close_info,            \* Channel._close_info (None or Some(payload))
    _server_flow_stopped,   \* Channel._server_flow_stopped
    _client_flow_stopped,   \* Channel._client_flow_stopped
    _lock,                  \* Channel._lock: [owner, waiters]
    reply,                  \* the (_send, _receive) stream of buffer size 0
    delivery,               \* the (_delivery_send, _delivery_receive) stream
    _recv_wakeup,           \* identity of the Event currently in Channel._recv_wakeup
    events_set,             \* identities of the Events that have been set
    pc,                     \* where each task is suspended
    op,                     \* the operation each task called, with its arguments
    result,                 \* what each task's operation returned or raised
    got,                    \* the frame a stream handed to a task
    sent,                   \* body frames written so far by a publishing task
    wire,                   \* frames written to the transport on this channel
    disp,                   \* the connection's reader task (dispatcher)
    answered,               \* requests on the wire the peer has answered
    openok_sent,            \* the peer has answered Channel.Open
    c_phase,                \* codec run: "off", "start", "wire", "decoded", "raised"
    c_payload,              \* the payload handed to serialise_payload (None or Some)
    c_body,                 \* the method frame body on the wire
    c_result,               \* what deserialise_payload returned or raised
    conn,                   \* the connection: [state, sent, error]
    d_enqueued,             \* delivery frames the dispatcher has handed to _enqueue_delivery
    d_received,             \* delivery frames taken from the delivery stream, in order
    consumer,               \* the task that receives from _delivery_receive: [pc, err]
    locks,                  \* several channels: the Lock objects their _lock fields hold
    mc_open,                \* several channels: each channel's _open
    mc_pc,                  \* several channels: where each task of each channel is
    mc_op,                  \* several channels: the operation each task called
    mc_sent,                \* several channels: frames each task has written
    dg_call,                \* delegate run: the call made, [op, pos, kw]
    dg_wrapped,             \* delegate run: what the wrapped operation does when it runs
    dg_direct,              \* delegate run: outcome of the call made on the channel itself
    dg_via                  \* delegate run: outcome of the call made on the ChannelDelegate

chan_vars == <<_open, _close_info, _server_flow_stopped, _client_flow_stopped,
               _lock, reply, delivery, _recv_wakeup, events_set>>
task_vars == <<pc, op, result, got, sent>>
env_vars == <<wire, disp, answered, openok_sent>>
codec_vars == <<c_phase, c_payload, c_body, c_result, conn>>
deliv_vars == <<d_enqueued, d_received, consumer>>
mc_vars == <<locks, mc_open, mc_pc, mc_op, mc_sent>>
dg_vars == <<dg_call, dg_wrapped, dg_direct, dg_via>>
vars == <<chan_vars, task_vars, env_vars, codec_vars, deliv_vars, mc_vars, dg_vars>>

NoOp == [kind |-> "none", name |-> "", body_len |-> 0]
NoFrame == [ftype |-> "none", ptype |-> "", for |-> 0,
            name |-> "", message_count |-> 0, consumer_count |-> 0]
NoResult == [kind |-> "none", at |-> "", value |-> [none |-> TRUE]]
Raised(exc, where) == [kind |-> exc, at |-> where, value |-> [none |-> TRUE]]
RaisedClose(info) == [kind |-> "UnexpectedCloseError", at |-> "receive", value |-> info]
Returned(v) == [kind |-> "ok", at |-> "return", value |-> v]

(***************************************************************************)
(* Channel.__init__                                                        *)
(***************************************************************************)
ChannelInit ==
    /\ _open = FALSE
    /\ reply = [recv_closed |-> FALSE, send_closed |-> FALSE, buffer |-> <<>>,
                waiting_receivers |-> <<>>, waiting_senders |-> <<>>]
    /\ delivery = [recv_closed |-> FALSE, buffer |-> <<>>,
                   waiting_receivers |-> <<>>, waiting_senders |-> <<>>]
    /\ _close_info = None
    /\ _recv_wakeup = 0
    /\ events_set = {}
    /\ _lock = [owner |-> None, waiters |-> <<>>]
    /\ _server_flow_stopped = FALSE
    /\ _client_flow_stopped = FALSE

TasksInit ==
    /\ pc = [p \in Procs |-> "idle"]
    /\ op = [p \in Procs |-> NoOp]
    /\ result = [p \in Procs |-> NoResult]
    /\ got = [p \in Procs |-> NoFrame]
    /\ sent = [p \in Procs |-> 0]
    /\ wire = <<>>
    /\ disp = [pc |-> "idle", err |-> "none"]
    /\ answered = 0
    /\ openok_sent = FALSE

DeliveryInit ==
    /\ d_enqueued = <<>>
    /\ d_received = <<>>
    /\ consumer = [pc |-> "idle", err |-> "none"]

\* the channels of one connection, each constructed by Channel.__init__
ChannelIds == {1, 2}
ChannelTasks == ChannelIds \X Tasks

\* a connection whose channels all use one Lock object
lock_of_shared(c) == 1
\* Channel.__init__ creates a Lock of its own for every channel
lock_of(c) == c

ChannelsInit ==
    /\ locks = [l \in {lock_of(c) : c \in ChannelIds} |-> [owner |-> None, waiters |-> <<>>]]
    /\ mc_open = [c \in ChannelIds |-> FALSE]
    /\ mc_pc = [p \in ChannelTasks |-> "idle"]
    /\ mc_op = [p \in ChannelTasks |-> NoOp]
    /\ mc_sent = [p \in ChannelTasks |-> 0]

\* no call is made through a ChannelDelegate
NoCall == [op |-> "none", pos |-> <<>>, kw |-> [n \in {} |-> ""]]
NoDelegateRun ==
    /\ dg_call = NoCall
    /\ dg_wrapped = "ok"
    /\ dg_direct = None
    /\ dg_via = None

NoCodecResult == [exc |-> "none", typ |-> "", vals |-> <<>>]
ConnOpen == [state |-> "OPEN", sent |-> <<>>, error |-> "none"]

Init ==
    /\ ChannelInit
    /\ TasksInit
    /\ DeliveryInit
    /\ ChannelsInit
    /\ NoDelegateRun
    /\ c_phase = "off"
    /\ c_payload = None
    /\ c_body = <<>>
    /\ c_result = NoCodecResult
    /\ conn = ConnOpen

(***************************************************************************)
(* Helpers                                                                 *)
(***************************************************************************)
Remove(s, x) == SelectSeq(s, LAMBDA y : y # x)

\* a channel whose entry check never raises
_check_closed_never == FALSE

\* Channel._check_closed raises
_check_closed == ~_open

\* a lock that every caller finds free
lock_locked_never(l) == FALSE

\* anyio.Lock: locked by some task
lock_locked(l) == l.owner # None

\* anyio.Lock.release: hand the lock to the first waiter, if any
lock_release(l) ==
    IF l.waiters = <<>>
    THEN [owner |-> None, waiters |-> <<>>]
    ELSE [owner |-> Some(Head(l.waiters)), waiters |-> Tail(l.waiters)]

\* a release that wakes nobody
lock_woken_none(l) == {}

\* the tasks lock_release wakes
lock_woken(l) == IF l.waiters = <<>> THEN {} ELSE {Head(l.waiters)}

\* where a task continues once it holds the lock
AfterLock(o) == IF o.kind = "queue_declare" THEN "send_request" ELSE "pub_method"

\* number of body frames _send_body_frames writes for a body of len bytes
NumBodyFrames(len) == (len + BodyChunk - 1) \div BodyChunk

\* a locked section that releases the lock only when it returns normally
ExitLocked_normal_only(t, r) ==
    /\ _lock' = IF r.kind = "ok" THEN lock_release(_lock) ELSE _lock
    /\ pc' = [p \in Procs |->
                IF p = t THEN "done"
                ELSE IF r.kind = "ok" /\ p \in lock_woken(_lock) THEN AfterLock(op[p])
                ELSE pc[p]]
    /\ result' = [result EXCEPT ![t] = r]

\* task t leaves `async with self._lock` with result r
ExitLocked(t, r) ==
    /\ _lock' = lock_release(_lock)
    /\ pc' = [p \in Procs |->
                IF p = t THEN "done"
                ELSE IF p \in lock_woken(_lock) THEN AfterLock(op[p])
                ELSE pc[p]]
    /\ result' = [result EXCEPT ![t] = r]

(***************************************************************************)
(* Channel.queue_declare: entry (_check_closed, build the payload) and     *)
(* Channel._send_and_receive_frame up to `async with self._lock`.          *)
(***************************************************************************)
EnterLock(t, o) ==
    IF lock_locked(_lock)
    THEN /\ _lock' = [_lock EXCEPT !.waiters = Append(@, t)]
         /\ pc' = [pc EXCEPT ![t] = "wait_lock"]
    ELSE /\ _lock' = [_lock EXCEPT !.owner = Some(t)]
         /\ pc' = [pc EXCEPT ![t] = AfterLock(o)]

CallOperation(t, o) ==
    /\ pc[t] = "idle"
    /\ op' = [op EXCEPT ![t] = o]
    /\ IF _check_closed
       THEN /\ pc' = [pc EXCEPT ![t] = "done"]
            /\ result' = [result EXCEPT ![t] = Raised("ClosedResourceError", "entry")]
            /\ UNCHANGED _lock
       ELSE /\ EnterLock(t, o)
            /\ UNCHANGED result
    /\ UNCHANGED <<_open, _close_info, _server_flow_stopped, _client_flow_stopped,
                   reply, delivery, _recv_wakeup, events_set, got, sent, env_vars, codec_vars, deliv_vars, mc_vars, dg_vars>>

queue_declare(t) ==
    \E n \in QueueNames :
        CallOperation(t, [kind |-> "queue_declare", name |-> n, body_len |-> 0])

basic_publish(t) ==
    \E len \in BodyLens :
        CallOperation(t, [kind |-> "basic_publish", name |-> "", body_len |-> len])

(***************************************************************************)
(* _send_and_receive_frame: self._connection._send_method_frame(payload)   *)
(***************************************************************************)
\* a request that is held back while the server has stopped the flow
SendRequest_flow_blocked(t) ==
    /\ pc[t] = "send_request"
    /\ ~_server_flow_stopped
    /\ wire' = Append(wire, WireMethod(t, "QueueDeclarePayload", op[t].name))
    /\ pc' = [pc EXCEPT ![t] = "receive_frame"]
    /\ UNCHANGED <<chan_vars, op, result, got, sent, disp, answered, openok_sent, codec_vars, deliv_vars, mc_vars, dg_vars>>

SendRequest(t) ==
    /\ pc[t] = "send_request"
    /\ wire' = Append(wire, WireMethod(t, "QueueDeclarePayload", op[t].name))
    /\ pc' = [pc EXCEPT ![t] = "receive_frame"]
    /\ UNCHANGED <<chan_vars, op, result, got, sent, disp, answered, openok_sent, codec_vars, deliv_vars, mc_vars, dg_vars>>

(***************************************************************************)
(* Channel._receive_frame, first part: _check_closed(), then the call of   *)
(* self._receive.receive(), which starts with a checkpoint.                *)
(***************************************************************************)
ReceiveFrameEnter(t) ==
    /\ pc[t] = "receive_frame"
    /\ IF _check_closed
       THEN ExitLocked(t, Raised("ClosedResourceError", "receive"))
       ELSE /\ pc' = [pc EXCEPT ![t] = "recv_nowait"]
            /\ UNCHANGED <<_lock, result>>
    /\ UNCHANGED <<_open, _close_info, _server_flow_stopped, _client_flow_stopped,
                   reply, delivery, _recv_wakeup, events_set, op, got, sent, env_vars, codec_vars, deliv_vars, mc_vars, dg_vars>>

\* what queue_declare returns from the frame _send_and_receive_frame gave it
declare_result(frame) == [name |-> frame.name]

\* the payload classes whose instances have an attribute `name`
has_name_attr(ptype) ==
    ptype \in {"QueueDeclarePayload", "QueueDeclareOkPayload", "BasicPublishPayload"}

\* `return result.payload.name`: the cast in _send_and_receive_frame checks
\* nothing, so the attribute lookup decides
declare_outcome(frame) ==
    IF has_name_attr(frame.ptype)
    THEN Returned(declare_result(frame))
    ELSE Raised("AttributeError", "return")

(***************************************************************************)
(* Channel._receive_frame after receive() produced a frame: set and        *)
(* replace _recv_wakeup, return the frame; queue_declare returns; the lock *)
(* is released.                                                            *)
(***************************************************************************)
\* a _receive_frame that sets the event and keeps it as the current one
ReceiveFrameReturn_keeps_event(t, frame) ==
    /\ events_set' = events_set \cup {_recv_wakeup}
    /\ UNCHANGED _recv_wakeup
    /\ got' = [got EXCEPT ![t] = frame]
    /\ ExitLocked(t, declare_outcome(frame))

ReceiveFrameReturn(t, frame) ==
    /\ events_set' = events_set \cup {_recv_wakeup}
    /\ _recv_wakeup' = _recv_wakeup + 1
    /\ got' = [got EXCEPT ![t] = frame]
    /\ ExitLocked(t, declare_outcome(frame))

(***************************************************************************)
(* self._receive.receive() after its checkpoint: receive_nowait(), or wait *)
(***************************************************************************)
\* receive_nowait: a waiting sender's item is put into the buffer and the
\* sender woken; the leftmost item of the buffer, if any, is returned
reply_incoming ==
    IF reply.waiting_senders # <<>>
    THEN Append(reply.buffer, Head(reply.waiting_senders))
    ELSE reply.buffer
reply_taken ==
    [reply EXCEPT !.waiting_senders = IF @ = <<>> THEN <<>> ELSE Tail(@),
                  !.buffer = Tail(reply_incoming)]
disp_woken ==
    IF reply.waiting_senders # <<>> THEN [disp EXCEPT !.pc = "idle"] ELSE disp

\* what _receive_frame raises in its `except EndOfStream`
receive_frame_eos ==
    IF _close_info = None
    THEN Raised("AMQPStateError", "receive")
    ELSE RaisedClose(_close_info[1])

ReceiveNowait(t) ==
    /\ t \in Tasks
    /\ pc[t] = "recv_nowait"
    /\ IF reply.recv_closed
       THEN \* receive_nowait raises anyio.ClosedResourceError
            /\ ExitLocked(t, Raised("ClosedResourceError", "receive"))
            /\ UNCHANGED <<reply, disp, _recv_wakeup, events_set, got>>
       ELSE IF reply_incoming # <<>>
       THEN \* a frame is there: take it (and wake the sender that held it)
            /\ reply' = reply_taken
            /\ disp' = disp_woken
            /\ ReceiveFrameReturn(t, Head(reply_incoming))
       ELSE IF reply.send_closed
       THEN \* EndOfStream: no send end is open (nothing in channel.py closes it)
            /\ ExitLocked(t, receive_frame_eos)
            /\ UNCHANGED <<reply, disp, _recv_wakeup, events_set, got>>
       ELSE \* WouldBlock: wait for a sender
            /\ reply' = [reply EXCEPT !.waiting_receivers = Append(@, t)]
            /\ pc' = [pc EXCEPT ![t] = "recv_wait"]
            /\ UNCHANGED <<_lock, result, disp, _recv_wakeup, events_set, got>>
    /\ UNCHANGED <<_open, _close_info, _server_flow_stopped, _client_flow_stopped,
                   delivery, op, sent, wire, answered, openok_sent, codec_vars, deliv_vars, mc_vars, dg_vars>>

\* the receiver was handed an item by send_nowait and resumes
ReceiveWoken(t) ==
    /\ t \in Tasks
    /\ pc[t] = "recv_got"
    /\ ReceiveFrameReturn(t, got[t])
    /\ UNCHANGED <<_open, _close_info, _server_flow_stopped, _client_flow_stopped,
                   reply, delivery, op, sent, env_vars, codec_vars, deliv_vars, mc_vars, dg_vars>>

(***************************************************************************)
(* Channel.basic_publish under the lock                                    *)
(***************************************************************************)
PublishMethod(t) ==
    /\ pc[t] = "pub_method"
    /\ wire' = Append(wire, WireMethod(t, "BasicPublishPayload", ""))
    /\ pc' = [pc EXCEPT ![t] = "pub_header"]
    /\ UNCHANGED <<chan_vars, op, result, got, sent, disp, answered, openok_sent, codec_vars, deliv_vars, mc_vars, dg_vars>>

\* a header frame that announces an empty body
header_body_length_zero(o) == 0

\* the body_length basic_publish passes to _send_header_frame
header_body_length(o) == o.body_len

PublishHeader(t) ==
    /\ pc[t] = "pub_header"
    /\ wire' = Append(wire, WireHeader(t, header_body_length(op[t])))
    /\ pc' = [pc EXCEPT ![t] =
                 IF NumBodyFrames(op[t].body_len) = 0 THEN "pub_exit" ELSE "pub_body"]
    /\ UNCHANGED <<chan_vars, op, result, got, sent, disp, answered, openok_sent, codec_vars, deliv_vars, mc_vars, dg_vars>>

PublishBody(t) ==
    /\ pc[t] = "pub_body"
    /\ wire' = Append(wire, WireBody(t))
    /\ sent' = [sent EXCEPT ![t] = @ + 1]
    /\ pc' = [pc EXCEPT ![t] =
                 IF sent[t] + 1 = NumBodyFrames(op[t].body_len) THEN "pub_exit" ELSE "pub_body"]
    /\ UNCHANGED <<chan_vars, op, result, got, disp, answered, openok_sent, codec_vars, deliv_vars, mc_vars, dg_vars>>

\* a publish that returns only once the peer has sent a frame on the channel
PublishExit_awaits_reply(t) ==
    /\ pc[t] = "pub_exit"
    /\ reply.waiting_senders # <<>>
    /\ ExitLocked(t, Returned([none |-> TRUE]))
    /\ UNCHANGED <<_open, _close_info, _server_flow_stopped, _client_flow_stopped,
                   reply, delivery, _recv_wakeup, events_set, op, got, sent, env_vars, codec_vars, deliv_vars, mc_vars, dg_vars>>

\* the last frame write has returned: leave `async with self._lock`, return None
PublishExit(t) ==
    /\ pc[t] = "pub_exit"
    /\ ExitLocked(t, Returned([none |-> TRUE]))
    /\ UNCHANGED <<_open, _close_info, _server_flow_stopped, _client_flow_stopped,
                   reply, delivery, _recv_wakeup, events_set, op, got, sent, env_vars, codec_vars, deliv_vars, mc_vars, dg_vars>>

(***************************************************************************)
(* A frame write raises (the transport is broken): the exception leaves    *)
(* `async with self._lock` and the operation.                              *)
(***************************************************************************)
WriteFails(t) ==
    /\ t \in Tasks
    /\ pc[t] \in {"send_request", "pub_method", "pub_header", "pub_body"}
    /\ ExitLocked(t, Raised("BrokenResourceError", "write"))
    /\ UNCHANGED <<_open, _close_info, _server_flow_stopped, _client_flow_stopped,
                   reply, delivery, _recv_wakeup, events_set, op, got, sent, env_vars,
                   codec_vars, deliv_vars, mc_vars, dg_vars>>

(***************************************************************************)
(* Cancellation of a user task at the await it is suspended in.  A         *)
(* receiver that was already handed an item keeps it (anyio).              *)
(***************************************************************************)
Cancel(t) ==
    /\ t \in Tasks
    /\ pc[t] \notin {"idle", "done", "recv_got"}
    /\ reply' = [reply EXCEPT !.waiting_receivers = Remove(@, t)]
    /\ IF _lock.owner = Some(t)
       THEN ExitLocked(t, Raised("Cancelled", pc[t]))
       ELSE /\ _lock' = [_lock EXCEPT !.waiters = Remove(@, t)]
            /\ pc' = [pc EXCEPT ![t] = "done"]
            /\ result' = [result EXCEPT ![t] = Raised("Cancelled", pc[t])]
    /\ UNCHANGED <<_open, _close_info, _server_flow_stopped, _client_flow_stopped,
                   delivery, _recv_wakeup, events_set, op, got, sent, env_vars, codec_vars, deliv_vars, mc_vars, dg_vars>>

(***************************************************************************)
(* Channel._wait_until_open, run by the task that opens the channel.  It   *)
(* reads self._receive directly: no _check_closed, no lock, no wake-up.    *)
(***************************************************************************)
\* a _wait_until_open that takes whatever frame comes first as the OpenOk
WaitUntilOpenReturn_unchecked(frame) ==
    /\ got' = [got EXCEPT ![Opener] = frame]
    /\ pc' = [pc EXCEPT ![Opener] = "done"]
    /\ result' = [result EXCEPT ![Opener] = Returned([none |-> TRUE])]
    /\ _open' = TRUE

WaitUntilOpenReturn(frame) ==
    /\ got' = [got EXCEPT ![Opener] = frame]
    /\ pc' = [pc EXCEPT ![Opener] = "done"]
    /\ IF frame.ftype # "MethodFrame"
       THEN /\ result' = [result EXCEPT ![Opener] = Raised("ValueError", "wait_until_open")]
            /\ UNCHANGED _open
       ELSE IF frame.ptype # "ChannelOpenOkPayload"
       THEN /\ result' = [result EXCEPT ![Opener] = Raised("ValueError", "wait_until_open")]
            /\ UNCHANGED _open
       ELSE /\ result' = [result EXCEPT ![Opener] = Returned([none |-> TRUE])]
            /\ _open' = TRUE

WaitUntilOpenCall ==
    /\ pc[Opener] = "idle"
    /\ pc' = [pc EXCEPT ![Opener] = "recv_nowait"]
    /\ op' = [op EXCEPT ![Opener] = [kind |-> "_wait_until_open", name |-> "", body_len |-> 0]]
    /\ UNCHANGED <<chan_vars, result, got, sent, env_vars, codec_vars, deliv_vars, mc_vars, dg_vars>>

WaitUntilOpenNowait ==
    /\ pc[Opener] = "recv_nowait"
    /\ IF reply.recv_closed
       THEN /\ pc' = [pc EXCEPT ![Opener] = "done"]
            /\ result' = [result EXCEPT ![Opener] =
                             Raised("ClosedResourceError", "wait_until_open")]
            /\ UNCHANGED <<reply, disp, got, _open>>
       ELSE IF reply_incoming # <<>>
       THEN /\ reply' = reply_taken
            /\ disp' = disp_woken
            /\ WaitUntilOpenReturn(Head(reply_incoming))
       ELSE IF reply.send_closed
       THEN /\ pc' = [pc EXCEPT ![Opener] = "done"]
            /\ result' = [result EXCEPT ![Opener] = Raised("EndOfStream", "wait_until_open")]
            /\ UNCHANGED <<reply, disp, got, _open>>
       ELSE /\ reply' = [reply EXCEPT !.waiting_receivers = Append(@, Opener)]
            /\ pc' = [pc EXCEPT ![Opener] = "recv_wait"]
            /\ UNCHANGED <<disp, got, result, _open>>
    /\ UNCHANGED <<_close_info, _server_flow_stopped, _client_flow_stopped, _lock,
                   delivery, _recv_wakeup, events_set, op, sent, wire, answered, openok_sent, codec_vars, deliv_vars, mc_vars, dg_vars>>

WaitUntilOpenWoken ==
    /\ pc[Opener] = "recv_got"
    /\ WaitUntilOpenReturn(got[Opener])
    /\ UNCHANGED <<_close_info, _server_flow_stopped, _client_flow_stopped, _lock,
                   reply, delivery, _recv_wakeup, events_set, op, sent, env_vars, codec_vars, deliv_vars, mc_vars, dg_vars>>

(***************************************************************************)
(* The dispatcher (the connection's reader task) calls the channel's       *)
(* inbound entry points.                                                   *)
(***************************************************************************)
\* a reply stream that buffers one frame
reply_max_buffer_size_one == 0 + 1
\* anyio.create_memory_object_stream(0): the reply stream has no buffer
reply_max_buffer_size == 0

\* Channel._enqueue_regular(frame): self._send.send(frame) on a stream of buffer size 0
_enqueue_regular(frame) ==
    /\ disp.pc = "idle"
    /\ IF reply.recv_closed
       THEN \* no open receive end: send_nowait raises BrokenResourceError
            /\ disp' = [disp EXCEPT !.err = "BrokenResourceError"]
            /\ UNCHANGED <<reply, pc, got>>
       ELSE IF reply.waiting_receivers # <<>>
       THEN \* hand the item to the first waiting receiver and wake it
            /\ reply' = [reply EXCEPT !.waiting_receivers = Tail(@)]
            /\ got' = [got EXCEPT ![Head(reply.waiting_receivers)] = frame]
            /\ pc' = [pc EXCEPT ![Head(reply.waiting_receivers)] = "recv_got"]
            /\ UNCHANGED disp
       ELSE IF Len(reply.buffer) < reply_max_buffer_size
       THEN /\ reply' = [reply EXCEPT !.buffer = Append(@, frame)]
            /\ UNCHANGED <<disp, pc, got>>
       ELSE \* WouldBlock: wait until a receiver takes the item
            /\ reply' = [reply EXCEPT !.waiting_senders = Append(@, frame)]
            /\ disp' = [disp EXCEPT !.pc = "send_wait"]
            /\ UNCHANGED <<pc, got>>
    /\ UNCHANGED <<_open, _close_info, _server_flow_stopped, _client_flow_stopped, _lock,
                   delivery, _recv_wakeup, events_set, op, result, sent, wire, codec_vars, deliv_vars, mc_vars, dg_vars>>

\* the synchronous requests written on this channel, in wire order
Requests == SelectSeq(wire, LAMBDA f : f.ftype = "method" /\ f.ptype = "QueueDeclarePayload")

\* the peer answers the requests in the order it received them
PeerReply ==
    /\ answered < Len(Requests)
    /\ \E v \in DeclareOkValues :
          _enqueue_regular(DeclareOkFrame(Requests[answered + 1].task, v))
    /\ answered' = answered + 1
    /\ UNCHANGED openok_sent

\* method frames of another payload type, as a reply to task t's request
OtherReplies(t) ==
    { [ftype |-> "MethodFrame", ptype |-> "FlowOkPayload", for |-> t,
       name |-> "", message_count |-> 0, consumer_count |-> 0],
      [ftype |-> "MethodFrame", ptype |-> "QueueDeclarePayload", for |-> t,
       name |-> "q", message_count |-> 0, consumer_count |-> 0] }

\* the frame routed to the reply slot for a request is not a Queue.DeclareOk
PeerReplyOther ==
    /\ answered < Len(Requests)
    /\ \E frame \in OtherReplies(Requests[answered + 1].task) : _enqueue_regular(frame)
    /\ answered' = answered + 1
    /\ UNCHANGED openok_sent

\* the peer answers the Channel.Open that open_channel sent
PeerOpenOk ==
    /\ pc[Opener] # "idle"
    /\ ~openok_sent
    /\ _enqueue_regular(OpenOkFrame)
    /\ openok_sent' = TRUE
    /\ UNCHANGED answered

\* the first frame routed to the channel is not a Channel.OpenOk
PeerOpenOther ==
    /\ pc[Opener] # "idle"
    /\ ~openok_sent
    /\ \E frame \in OtherFrames : _enqueue_regular(frame)
    /\ openok_sent' = TRUE
    /\ UNCHANGED answered

\* a close that records the reason and leaves both streams open
_close_keeps_streams(payload) ==
    /\ disp.pc = "idle"
    /\ _close_info = None
    /\ _open' = FALSE
    /\ _close_info' = Some(payload)
    /\ UNCHANGED <<reply, delivery, _server_flow_stopped, _client_flow_stopped, _lock,
                   _recv_wakeup, events_set, task_vars, env_vars, codec_vars, deliv_vars,
                   mc_vars, dg_vars>>

\* Channel._close(payload), called when the peer sent Channel.Close
_close(payload) ==
    /\ disp.pc = "idle"
    /\ ~reply.recv_closed
    /\ reply' = [reply EXCEPT !.recv_closed = TRUE]
    /\ delivery' = [delivery EXCEPT !.recv_closed = TRUE]
    /\ _open' = FALSE
    /\ _close_info' = Some(payload)
    /\ UNCHANGED <<_server_flow_stopped, _client_flow_stopped, _lock, _recv_wakeup,
                   events_set, task_vars, env_vars, codec_vars, deliv_vars, mc_vars, dg_vars>>

PeerClose == \E payload \in ClosePayloads : _close(payload)

\* the connection handles Channel.Flow(active) from the peer
ServerFlow ==
    /\ disp.pc = "idle"
    /\ _open
    /\ _server_flow_stopped' = ~_server_flow_stopped
    /\ UNCHANGED <<_open, _close_info, _client_flow_stopped, _lock, reply, delivery,
                   _recv_wakeup, events_set, task_vars, env_vars, codec_vars, deliv_vars, mc_vars, dg_vars>>

(***************************************************************************)
(* Deliveries: the dispatcher hands delivery frames to _enqueue_delivery   *)
(* and a consumer task receives them from self._delivery_receive, a stream *)
(* of buffer size stream_buffer_size.                                      *)
(***************************************************************************)
DeliverFrame(n) ==
    [ftype |-> "MethodFrame", ptype |-> "BasicDeliverPayload", delivery_tag |-> n]

\* Channel.max_buffer_size and Channel.current_buffer_size (stream statistics)
max_buffer_size == StreamBufferSize
current_buffer_size == Len(delivery.buffer)

\* a stream that takes an item whatever its buffer holds
buffer_has_room_always(buf) == TRUE
\* send_nowait buffers the item only while the buffer is below max_buffer_size
buffer_has_room(buf) == Len(buf) < max_buffer_size

\* a buffer that puts the newest item first
buffer_push_front(buf, frame) == <<frame>> \o buf
\* the buffer is a deque: items are appended at the right, taken from the left
buffer_push(buf, frame) == Append(buf, frame)

\* Channel._enqueue_delivery(frame): self._delivery_send.send(frame)
_enqueue_delivery(frame) ==
    /\ disp.pc = "idle"
    /\ d_enqueued' = Append(d_enqueued, frame)
    /\ IF delivery.recv_closed
       THEN \* no open receive end: send_nowait raises BrokenResourceError
            /\ disp' = [disp EXCEPT !.err = "BrokenResourceError"]
            /\ UNCHANGED <<delivery, d_received, consumer>>
       ELSE IF delivery.waiting_receivers # <<>>
       THEN \* hand the item to the waiting receiver and wake it
            /\ delivery' = [delivery EXCEPT !.waiting_receivers = Tail(@)]
            /\ consumer' = [consumer EXCEPT !.pc = "recv_got"]
            /\ d_received' = Append(d_received, frame)
            /\ UNCHANGED disp
       ELSE IF buffer_has_room(delivery.buffer)
       THEN /\ delivery' = [delivery EXCEPT !.buffer = buffer_push(@, frame)]
            /\ UNCHANGED <<disp, d_received, consumer>>
       ELSE \* WouldBlock: wait until a receiver makes room
            /\ delivery' = [delivery EXCEPT !.waiting_senders = Append(@, frame)]
            /\ disp' = [disp EXCEPT !.pc = "delivery_wait"]
            /\ UNCHANGED <<d_received, consumer>>
    /\ UNCHANGED <<_open, _close_info, _server_flow_stopped, _client_flow_stopped, _lock,
                   reply, _recv_wakeup, events_set, task_vars, wire, answered, openok_sent,
                   codec_vars, mc_vars, dg_vars>>

\* the peer delivers a message on the channel it has opened
PeerDeliver ==
    /\ openok_sent
    /\ Len(d_enqueued) < MaxDeliveries
    /\ _enqueue_delivery(DeliverFrame(Len(d_enqueued) + 1))

\* the consumer calls self._delivery_receive.receive(): receive_nowait, or wait
ConsumerReceive ==
    /\ consumer.pc = "idle"
    /\ IF delivery.recv_closed
       THEN /\ consumer' = [pc |-> "done", err |-> "ClosedResourceError"]
            /\ UNCHANGED <<delivery, disp, d_received>>
       ELSE IF delivery.waiting_senders # <<>>
       THEN \* the waiting sender's item goes into the buffer, the sender is
            \* woken, and the leftmost item of the buffer is returned
            LET buf == buffer_push(delivery.buffer, Head(delivery.waiting_senders)) IN
            /\ delivery' = [delivery EXCEPT !.waiting_senders = Tail(@),
                                            !.buffer = Tail(buf)]
            /\ d_received' = Append(d_received, Head(buf))
            /\ disp' = [disp EXCEPT !.pc = "idle"]
            /\ UNCHANGED consumer
       ELSE IF delivery.buffer # <<>>
       THEN /\ delivery' = [delivery EXCEPT !.buffer = Tail(@)]
            /\ d_received' = Append(d_received, Head(delivery.buffer))
            /\ UNCHANGED <<disp, consumer>>
       ELSE /\ delivery' = [delivery EXCEPT !.waiting_receivers = Append(@, "consumer")]
            /\ consumer' = [consumer EXCEPT !.pc = "recv_wait"]
            /\ UNCHANGED <<disp, d_received>>
    /\ UNCHANGED <<_open, _close_info, _server_flow_stopped, _client_flow_stopped, _lock,
                   reply, _recv_wakeup, events_set, task_vars, wire, answered, openok_sent,
                   d_enqueued, codec_vars, mc_vars, dg_vars>>

\* the consumer resumes with the frame it was handed
ConsumerWoken ==
    /\ consumer.pc = "recv_got"
    /\ consumer' = [consumer EXCEPT !.pc = "idle"]
    /\ UNCHANGED <<chan_vars, task_vars, env_vars, codec_vars, mc_vars, dg_vars, d_enqueued, d_received>>

TaskStep(t) ==
    \/ queue_declare(t)
    \/ basic_publish(t)
    \/ SendRequest(t)
    \/ ReceiveFrameEnter(t)
    \/ ReceiveNowait(t)
    \/ ReceiveWoken(t)
    \/ PublishMethod(t)
    \/ PublishHeader(t)
    \/ PublishBody(t)
    \/ PublishExit(t)

OpenerStep ==
    \/ WaitUntilOpenCall
    \/ WaitUntilOpenNowait
    \/ WaitUntilOpenWoken

DispatcherStep ==
    \/ PeerReply
    \/ PeerOpenOk
    \/ PeerOpenOther
    \/ PeerClose
    \/ ServerFlow

Next ==
    \/ \E t \in Tasks : TaskStep(t)
    \/ \E t \in Tasks : Cancel(t)
    \/ \E t \in Tasks : WriteFails(t)
    \/ OpenerStep
    \/ DispatcherStep

Spec == Init /\ [][Next]_vars

\* the channel when the reply routed to a requester may be of any payload type
RepliesNext == Next \/ PeerReplyOther

SpecReplies == Init /\ [][RepliesNext]_vars

\* the scheduler runs every runnable task, and the dispatcher handles what the
\* peer sent; cancellation, Channel.Close and Channel.Flow are the environment's choice
FairSpec ==
    /\ Spec
    /\ \A t \in Tasks : WF_vars(TaskStep(t))
    /\ WF_vars(OpenerStep)
    /\ WF_vars(PeerReply \/ PeerOpenOk)

\* the channel with its deliveries: the opener, the dispatcher handing over
\* Channel.OpenOk, delivery frames and Channel.Close, and the consumer
DeliveryNext ==
    \/ OpenerStep
    \/ PeerOpenOk
    \/ PeerClose
    \/ PeerDeliver
    \/ ConsumerReceive
    \/ ConsumerWoken

SpecDelivery == Init /\ [][DeliveryNext]_vars

\* the steps of a queue_declare call
DeclareStep(t) ==
    \/ queue_declare(t)
    \/ SendRequest(t)
    \/ ReceiveFrameEnter(t)
    \/ ReceiveNowait(t)
    \/ ReceiveWoken(t)

\* the channel with both of its streams in use: requesters and their replies,
\* deliveries and the consumer, and Channel.Close from the peer
ClosingNext ==
    \/ DeliveryNext
    \/ \E t \in Tasks : DeclareStep(t)
    \/ PeerReply

SpecClosing == Init /\ [][ClosingNext]_vars

(***************************************************************************)
(* Several channels of one connection.  Each is a Channel with the entry   *)
(* check, the `async with self._lock` sections of _send_and_receive_frame  *)
(* and basic_publish, and its own reply from the peer; the streams are not *)
(* modelled again here.                                                    *)
(***************************************************************************)
\* self._lock of channel c
channel_lock(c) == locks[lock_of(c)]

\* _wait_until_open of channel c has returned
McOpen(c) ==
    /\ ~mc_open[c]
    /\ mc_open' = [mc_open EXCEPT ![c] = TRUE]
    /\ UNCHANGED <<chan_vars, task_vars, env_vars, codec_vars, deliv_vars,
                   dg_vars, locks, mc_pc, mc_op, mc_sent>>

\* task t calls queue_declare or basic_publish on channel c
McCall(c, t, kind) ==
    /\ mc_pc[<<c, t>>] = "idle"
    /\ mc_op' = [mc_op EXCEPT ![<<c, t>>] = [kind |-> kind, name |-> "", body_len |-> 0]]
    /\ IF ~mc_open[c]
       THEN /\ mc_pc' = [mc_pc EXCEPT ![<<c, t>>] = "done"]
            /\ UNCHANGED locks
       ELSE IF lock_locked(channel_lock(c))
       THEN /\ locks' = [locks EXCEPT ![lock_of(c)].waiters = Append(@, <<c, t>>)]
            /\ mc_pc' = [mc_pc EXCEPT ![<<c, t>>] = "wait_lock"]
       ELSE /\ locks' = [locks EXCEPT ![lock_of(c)].owner = Some(<<c, t>>)]
            /\ mc_pc' = [mc_pc EXCEPT ![<<c, t>>] = AfterLock(mc_op'[<<c, t>>])]
    /\ UNCHANGED <<chan_vars, task_vars, env_vars, codec_vars, deliv_vars, dg_vars, mc_open, mc_sent>>

\* a task writes the next frame of its operation on channel c
McSendFrame(c, t) ==
    /\ mc_pc[<<c, t>>] \in {"send_request", "pub_method", "pub_header", "pub_body"}
    /\ mc_sent' = [mc_sent EXCEPT ![<<c, t>>] = @ + 1]
    /\ mc_pc' = [mc_pc EXCEPT ![<<c, t>>] =
                    CASE mc_pc[<<c, t>>] = "send_request" -> "receive_frame"
                      [] mc_pc[<<c, t>>] = "pub_method" -> "pub_header"
                      [] mc_pc[<<c, t>>] = "pub_header" -> "pub_body"
                      [] mc_pc[<<c, t>>] = "pub_body" -> "pub_exit"]
    /\ UNCHANGED <<chan_vars, task_vars, env_vars, codec_vars, deliv_vars,
                   dg_vars, locks, mc_open, mc_op>>

\* task t leaves `async with self._lock` of channel c
McExitLocked(c, t) ==
    /\ locks' = [locks EXCEPT ![lock_of(c)] = lock_release(@)]
    /\ mc_pc' = [p \in ChannelTasks |->
                    IF p = <<c, t>> THEN "done"
                    ELSE IF p \in lock_woken(channel_lock(c)) THEN AfterLock(mc_op[p])
                    ELSE mc_pc[p]]
    /\ UNCHANGED <<chan_vars, task_vars, env_vars, codec_vars, deliv_vars,
                   dg_vars, mc_open, mc_op, mc_sent>>

\* the peer's reply on channel c reaches the requester, which returns
McReply(c, t) ==
    /\ mc_pc[<<c, t>>] = "receive_frame"
    /\ McExitLocked(c, t)

\* basic_publish on channel c returns
McPublishExit(c, t) ==
    /\ mc_pc[<<c, t>>] = "pub_exit"
    /\ McExitLocked(c, t)

ChannelsNext ==
    \E c \in ChannelIds :
        \/ McOpen(c)
        \/ \E t \in Tasks :
              \/ McCall(c, t, "queue_declare")
              \/ McCall(c, t, "basic_publish")
              \/ McSendFrame(c, t)
              \/ McReply(c, t)
              \/ McPublishExit(c, t)

SpecChannels == Init /\ [][ChannelsNext]_vars

(***************************************************************************)
(* The method payload registry and its wire form (payloads/method.py).     *)
(* A byte string is a sequence of numbers in 0..255; a str or bytes value  *)
(* is the sequence of its bytes; a payload value is [typ, vals], vals the  *)
(* values of the fields in declaration order.                              *)
(***************************************************************************)
\* class ClassID(enum.IntEnum)
CONNECTION == 10
CHANNEL == 20
EXCHANGE == 40
QUEUE == 50
BASIC == 60
TX == 90
ClassID == {CONNECTION, CHANNEL, EXCHANGE, QUEUE, BASIC, TX}

F(n, ty) == [name |-> n, aq |-> ty]

\* The payload classes: klass, method, is_client_side, whether the class is
\* decorated with @attr.s, and the attr.ib() attributes its body declares
\* with their wire types (aq_type metadata, else the annotation: str is a
\* shortstr, bytes a longstr, bool a bit, Dict a field table).
PayloadClass(T) ==
    CASE T = "StartPayload" ->
            [klass |-> CONNECTION, method |-> 10, is_client_side |-> FALSE, attrs |-> TRUE,
             declared |-> <<F("version_major", "octet"), F("version_minor", "octet"),
                            F("properties", "table"), F("mechanisms", "longstr"),
                            F("locales", "longstr")>>]
      [] T = "StartOkPayload" ->
            [klass |-> CONNECTION, method |-> 11, is_client_side |-> TRUE, attrs |-> TRUE,
             declared |-> <<F("properties", "table"), F("mechanism", "shortstr"),
                            F("response", "longstr"), F("locale", "shortstr")>>]
      [] T = "SecurePayload" ->
            [klass |-> CONNECTION, method |-> 20, is_client_side |-> FALSE, attrs |-> TRUE,
             declared |-> <<F("challenge", "longstr")>>]
      [] T = "SecureOkPayload" ->
            [klass |-> CONNECTION, method |-> 21, is_client_side |-> TRUE, attrs |-> TRUE,
             declared |-> <<F("response", "longstr")>>]
      [] T = "TunePayload" ->
            [klass |-> CONNECTION, method |-> 30, is_client_side |-> FALSE, attrs |-> TRUE,
             declared |-> <<F("max_channels", "short"), F("max_frame_size", "long"),
                            F("heartbeat_delay", "short")>>]
      [] T = "TuneOkPayload" ->
            [klass |-> CONNECTION, method |-> 31, is_client_side |-> TRUE, attrs |-> TRUE,
             declared |-> <<F("max_channels", "short"), F("max_frame_size", "long"),
                            F("heartbeat_delay", "short")>>]
      [] T = "ConnectionOpenPayload" ->
            [klass |-> CONNECTION, method |-> 40, is_client_side |-> FALSE, attrs |-> TRUE,
             declared |-> <<F("virtual_host", "shortstr"), F("reserved_1", "shortstr"),
                            F("reserved_2", "bit")>>]
      [] T = "ConnectionOpenOkPayload" ->
            [klass |-> CONNECTION, method |-> 41, is_client_side |-> TRUE, attrs |-> TRUE,
             declared |-> <<F("reserved_1", "shortstr")>>]
      [] T = "ClosePayload" ->
            [klass |-> CONNECTION, method |-> 50, is_client_side |-> TRUE, attrs |-> TRUE,
             declared |-> <<F("reply_code", "short"), F("reply_text", "shortstr"),
                            F("class_id", "short"), F("method_id", "short")>>]
      [] T = "CloseOkPayload" ->
            [klass |-> CONNECTION, method |-> 51, is_client_side |-> TRUE, attrs |-> TRUE,
             declared |-> <<>>]
      [] T = "ChannelOpenPayload" ->
            [klass |-> CHANNEL, method |-> 10, is_client_side |-> FALSE, attrs |-> TRUE,
             declared |-> <<F("reserved_1", "shortstr")>>]
      [] T = "ChannelOpenOkPayload" ->
            [klass |-> CHANNEL, method |-> 11, is_client_side |-> TRUE, attrs |-> TRUE,
             declared |-> <<F("reserved_1", "longstr")>>]
      [] T = "FlowPayload" ->
            [klass |-> CHANNEL, method |-> 20, is_client_side |-> TRUE, attrs |-> TRUE,
             declared |-> <<F("active", "bit")>>]
      [] T = "FlowOkPayload" ->
            [klass |-> CHANNEL, method |-> 21, is_client_side |-> TRUE, attrs |-> TRUE,
             declared |-> <<F("active", "bit")>>]
      [] T = "ChannelClosePayload" ->
            [klass |-> CHANNEL, method |-> 40, is_client_side |-> TRUE, attrs |-> TRUE,
             declared |-> <<F("reply_code", "short"), F("reply_text", "shortstr"),
                            F("class_id", "short"), F("method_id", "short")>>]
      [] T = "ChannelCloseOkPayload" ->
            [klass |-> CHANNEL, method |-> 41, is_client_side |-> TRUE, attrs |-> TRUE,
             declared |-> <<>>]
      [] T = "QueueDeclarePayload" ->
            [klass |-> QUEUE, method |-> 10, is_client_side |-> FALSE, attrs |-> TRUE,
             declared |-> <<F("reserved_1", "short"), F("name", "shortstr"),
                            F("passive", "bit"), F("durable", "bit"), F("exclusive", "bit"),
                            F("auto_delete", "bit"), F("no_wait", "bit"),
                            F("arguments", "table")>>]
      [] T = "QueueDeclareOkPayload" ->
            [klass |-> QUEUE, method |-> 11, is_client_side |-> TRUE, attrs |-> TRUE,
             declared |-> <<F("name", "shortstr"), F("message_count", "long"),
                            F("consumer_count", "long")>>]
      [] T = "BasicPublishPayload" ->
            [klass |-> BASIC, method |-> 40, is_client_side |-> FALSE, attrs |-> TRUE,
             declared |-> <<F("reserved_1", "short"), F("name", "shortstr"),
                            F("routing_key", "shortstr"), F("mandatory", "bit"),
                            F("immediate", "bit")>>]
      [] T = "BasicDeliverPayload" ->
            \* the class statement carries no @attr.s decorator
            [klass |-> BASIC, method |-> 60, is_client_side |-> TRUE, attrs |-> FALSE,
             declared |-> <<F("consumer_tag", "shortstr"), F("delivery_tag", "longlong"),
                            F("redelivered", "bit"), F("exchange_name", "shortstr"),
                            F("routing_key", "shortstr")>>]

\* a registry that lists BasicDeliverPayload in the QUEUE dictionary
RegisteredUnder_misfiled(c) ==
    CASE c = CONNECTION ->
            {"StartPayload", "StartOkPayload", "SecurePayload", "SecureOkPayload",
             "TunePayload", "TuneOkPayload", "ConnectionOpenPayload",
             "ConnectionOpenOkPayload", "ClosePayload", "CloseOkPayload"}
      [] c = CHANNEL ->
            {"ChannelOpenPayload", "ChannelOpenOkPayload", "FlowPayload", "FlowOkPayload",
             "ChannelClosePayload", "ChannelCloseOkPayload"}
      [] c = QUEUE -> {"QueueDeclarePayload", "QueueDeclareOkPayload", "BasicDeliverPayload"}
      [] c = BASIC -> {"BasicPublishPayload"}

\* the payload classes each class id's dictionary of PAYLOAD_TYPES is built from
RegisteredUnder(c) ==
    CASE c = CONNECTION ->
            {"StartPayload", "StartOkPayload", "SecurePayload", "SecureOkPayload",
             "TunePayload", "TuneOkPayload", "ConnectionOpenPayload",
             "ConnectionOpenOkPayload", "ClosePayload", "CloseOkPayload"}
      [] c = CHANNEL ->
            {"ChannelOpenPayload", "ChannelOpenOkPayload", "FlowPayload", "FlowOkPayload",
             "ChannelClosePayload", "ChannelCloseOkPayload"}
      [] c = QUEUE -> {"QueueDeclarePayload", "QueueDeclareOkPayload"}
      [] c = BASIC -> {"BasicPublishPayload", "BasicDeliverPayload"}

\* PAYLOAD_TYPES: class id -> (method id -> payload class), keyed by X.method
PAYLOAD_TYPES ==
    [c \in {CONNECTION, CHANNEL, QUEUE, BASIC} |->
        [m \in {PayloadClass(T).method : T \in RegisteredUnder(c)} |->
            CHOOSE T \in RegisteredUnder(c) : PayloadClass(T).method = m]]

PayloadTypeNames == UNION {RegisteredUnder(c) : c \in DOMAIN PAYLOAD_TYPES}

\* attr.fields(T): the attributes @attr.s collected; a class that is not
\* decorated inherits MethodPayload's __attrs_attrs__, which is empty
attr_fields(T) == IF PayloadClass(T).attrs THEN PayloadClass(T).declared ELSE <<>>

\* --- the wire types (payloads/encoding.py, utils/buffer.py) ---------------
RECURSIVE EncodeUInt(_, _)
EncodeUInt(v, n) == IF n = 0 THEN <<>> ELSE EncodeUInt(v \div 256, n - 1) \o <<v % 256>>

RECURSIVE DecodeUInt(_)
DecodeUInt(bs) ==
    IF bs = <<>> THEN 0 ELSE DecodeUInt(SubSeq(bs, 1, Len(bs) - 1)) * 256 + bs[Len(bs)]

Take(bs, n) == SubSeq(bs, 1, n)
Drop(bs, n) == SubSeq(bs, n + 1, Len(bs))

IntWidth(aq) ==
    CASE aq = "octet" -> 1 [] aq = "short" -> 2 [] aq = "long" -> 4 [] aq = "longlong" -> 8

\* a field table: a sequence of [key, val] entries with boolean values
RECURSIVE EncodeTableEntries(_)
EncodeTableEntries(tab) ==
    IF tab = <<>> THEN <<>>
    ELSE <<Len(Head(tab).key)>> \o Head(tab).key
            \o <<116, IF Head(tab).val THEN 1 ELSE 0>>
            \o EncodeTableEntries(Tail(tab))

RECURSIVE DecodeTableEntries(_)
DecodeTableEntries(bs) ==
    IF bs = <<>> THEN <<>>
    ELSE LET n == bs[1]
         IN  <<[key |-> SubSeq(bs, 2, n + 1), val |-> bs[n + 3] = 1]>>
                \o DecodeTableEntries(Drop(bs, n + 3))

EncodeValue(aq, v) ==
    CASE aq \in {"octet", "short", "long", "longlong"} -> EncodeUInt(v, IntWidth(aq))
      [] aq = "shortstr" -> <<Len(v)>> \o v
      [] aq = "longstr" -> EncodeUInt(Len(v), 4) \o v
      [] aq = "table" ->
            LET body == EncodeTableEntries(v) IN EncodeUInt(Len(body), 4) \o body

\* [val, rest]: the value read from the front of bs and the bytes after it
DecodeValue(aq, bs) ==
    CASE aq \in {"octet", "short", "long", "longlong"} ->
            [val |-> DecodeUInt(Take(bs, IntWidth(aq))), rest |-> Drop(bs, IntWidth(aq))]
      [] aq = "shortstr" ->
            [val |-> SubSeq(bs, 2, bs[1] + 1), rest |-> Drop(bs, bs[1] + 1)]
      [] aq = "longstr" ->
            LET n == DecodeUInt(Take(bs, 4))
            IN  [val |-> SubSeq(bs, 5, n + 4), rest |-> Drop(bs, n + 4)]
      [] aq = "table" ->
            LET n == DecodeUInt(Take(bs, 4))
            IN  [val |-> DecodeTableEntries(SubSeq(bs, 5, n + 4)), rest |-> Drop(bs, n + 4)]

\* EncodingBuffer.force_write_bits: the pending bits, first bit lowest, as one octet
RECURSIVE BitsValue(_)
BitsValue(bits) ==
    IF bits = <<>> THEN 0
    ELSE (IF Head(bits) THEN 1 ELSE 0) + 2 * BitsValue(Tail(bits))

force_write_bits(bits) == IF bits = <<>> THEN <<>> ELSE <<BitsValue(bits)>>

\* the loop of encode_attrs_attribute over the fields: consecutive bits share
\* an octet, any other field flushes the pending bits first
RECURSIVE encode_fields(_, _, _)
encode_fields(fs, vals, bits) ==
    IF fs = <<>> THEN force_write_bits(bits)
    ELSE IF Head(fs).aq = "bit"
    THEN IF Len(bits) = 8
         THEN force_write_bits(bits) \o encode_fields(Tail(fs), Tail(vals), <<Head(vals)>>)
         ELSE encode_fields(Tail(fs), Tail(vals), Append(bits, Head(vals)))
    ELSE force_write_bits(bits) \o EncodeValue(Head(fs).aq, Head(vals))
            \o encode_fields(Tail(fs), Tail(vals), <<>>)

\* the loop of decode_attrs_attribute over the fields; oct is the bit octet
\* being read and used the number of its bits already taken (0: none pending)
RECURSIVE decode_fields(_, _, _, _)
decode_fields(fs, bs, oct, used) ==
    IF fs = <<>> THEN <<>>
    ELSE IF Head(fs).aq = "bit"
    THEN IF used = 0 \/ used = 8
         THEN <<bs[1] % 2 = 1>> \o decode_fields(Tail(fs), Tail(bs), bs[1] \div 2, 1)
         ELSE <<oct % 2 = 1>> \o decode_fields(Tail(fs), bs, oct \div 2, used + 1)
    ELSE LET r == DecodeValue(Head(fs).aq, bs)
         IN  <<r.val>> \o decode_fields(Tail(fs), r.rest, 0, 0)

\* serialise_payload(payload)
serialise_payload(payload) ==
    LET typ == payload.typ
        header == EncodeUInt(PayloadClass(typ).klass, 2) \o EncodeUInt(PayloadClass(typ).method, 2)
        fields == attr_fields(typ)
    IN  header \o encode_fields(fields, payload.vals, <<>>)

\* deserialise_payload(body): [exc, typ, vals]; exc is the exception it raises
deserialise_payload(body) ==
    LET klass == DecodeUInt(SubSeq(body, 1, 2))
        method == DecodeUInt(SubSeq(body, 3, 4))
        rest == Drop(body, 4)
    IN  IF klass \notin ClassID
        THEN [exc |-> "ValueError", typ |-> "", vals |-> <<>>]
        ELSE IF klass \notin DOMAIN PAYLOAD_TYPES
        THEN [exc |-> "KeyError", typ |-> "", vals |-> <<>>]
        ELSE IF method \notin DOMAIN PAYLOAD_TYPES[klass]
        THEN [exc |-> "KeyError", typ |-> "", vals |-> <<>>]
        ELSE LET payload_klass == PAYLOAD_TYPES[klass][method]
             IN  [exc |-> "none", typ |-> payload_klass,
                  vals |-> decode_fields(attr_fields(payload_klass), rest, 0, 0)]

\* --- the values the codec is run on ---------------------------------------
FieldValues(aq) ==
    CASE aq = "octet" -> {0, 9}
      [] aq = "short" -> {0, 404}
      [] aq = "long" -> {1, 131072}
      [] aq = "longlong" -> {1, 65537}
      [] aq = "shortstr" -> {<<>>, <<113, 49>>}
      [] aq = "longstr" -> {<<>>, <<80, 76, 65>>}
      [] aq = "bit" -> BOOLEAN
      [] aq = "table" -> {<<>>, <<[key |-> <<120>>, val |-> TRUE]>>}

RECURSIVE ValueTuples(_)
ValueTuples(fs) ==
    IF fs = <<>> THEN {<<>>}
    ELSE {<<x>> \o r : x \in FieldValues(Head(fs).aq), r \in ValueTuples(Tail(fs))}

\* every value of every registered variant, with a value for each declared field
AllPayloads ==
    UNION {{[typ |-> T, vals |-> v] : v \in ValueTuples(PayloadClass(T).declared)} :
              T \in PayloadTypeNames}

\* (class, method) headers of inbound method bodies that are not registered
MethodIds == {10, 11, 99}
UnregisteredHeaders ==
    {h \in (ClassID \cup {30}) \X MethodIds :
        ~(h[1] \in DOMAIN PAYLOAD_TYPES /\ h[2] \in DOMAIN PAYLOAD_TYPES[h[1]])}

(***************************************************************************)
(* Codec runs: a payload is serialised and the body deserialised again, or *)
(* the peer sends a method body and the connection deserialises it.        *)
(***************************************************************************)
CodecInit ==
    /\ ChannelInit
    /\ TasksInit
    /\ DeliveryInit
    /\ ChannelsInit
    /\ NoDelegateRun
    /\ c_phase = "start"
    /\ c_payload \in {Some(P) : P \in AllPayloads} \cup {None}
    /\ c_body = <<>>
    /\ c_result = NoCodecResult
    /\ conn = ConnOpen

Serialise ==
    /\ c_phase = "start"
    /\ c_payload # None
    /\ c_body' = serialise_payload(c_payload[1])
    /\ c_phase' = "wire"
    /\ UNCHANGED <<chan_vars, task_vars, env_vars, deliv_vars, mc_vars, dg_vars, c_payload, c_result, conn>>

PeerSendsUnregistered ==
    /\ c_phase = "start"
    /\ c_payload = None
    /\ \E h \in UnregisteredHeaders :
          c_body' = EncodeUInt(h[1], 2) \o EncodeUInt(h[2], 2)
    /\ c_phase' = "wire"
    /\ UNCHANGED <<chan_vars, task_vars, env_vars, deliv_vars, mc_vars, dg_vars, c_payload, c_result, conn>>

\* the connection reads a method frame: deserialise_payload(body); what it
\* raises propagates to the reader
HandleMethodBody ==
    /\ c_phase = "wire"
    /\ c_result' = deserialise_payload(c_body)
    /\ IF c_result'.exc = "none"
       THEN /\ c_phase' = "decoded"
            /\ UNCHANGED conn
       ELSE /\ c_phase' = "raised"
            /\ conn' = [conn EXCEPT !.error = c_result'.exc]
    /\ UNCHANGED <<chan_vars, task_vars, env_vars, deliv_vars, mc_vars, dg_vars, c_payload, c_body>>

CodecNext == Serialise \/ PeerSendsUnregistered \/ HandleMethodBody

SpecCodec == CodecInit /\ [][CodecNext]_vars

(***************************************************************************)
(* ChannelLike and ChannelDelegate (mixin.py).  A call is the operation,   *)
(* the values passed positionally and the values passed by keyword; it is  *)
(* bound to a signature the way Python binds arguments.  A value is a pair *)
(* <<"passed", parameter the caller meant it for>> or <<"default", text>>. *)
(***************************************************************************)
Sig(pos, kwonly, defaults, varkw) ==
    [pos |-> pos, kwonly |-> kwonly, defaults |-> defaults, varkw |-> varkw]
Default(names, text) == [n \in names |-> <<"default", text>>]
Range(s) == {s[i] : i \in DOMAIN s}

DelegateOps ==
    {"exchange_declare", "exchange_delete", "exchange_bind", "exchange_unbind",
     "queue_declare", "queue_bind", "queue_delete", "queue_purge", "queue_unbind",
     "basic_consume", "basic_publish", "basic_get"}

\* the signatures ChannelLike declares
ChannelLikeSig(o) ==
    CASE o = "exchange_declare" ->
            Sig(<<"name", "type">>,
                {"passive", "durable", "auto_delete", "internal", "arguments"},
                Default({"passive", "durable", "auto_delete", "internal"}, "False")
                    @@ Default({"arguments"}, "None"), FALSE)
      [] o = "exchange_delete" ->
            Sig(<<"name">>, {"if_unused"}, Default({"if_unused"}, "False"), FALSE)
      [] o \in {"exchange_bind", "exchange_unbind"} ->
            Sig(<<"destination", "source", "routing_key", "arguments">>, {},
                Default({"arguments"}, "None"), FALSE)
      [] o = "queue_declare" ->
            Sig(<<"name">>, {"passive", "durable", "exclusive", "auto_delete", "arguments"},
                Default({"passive", "durable", "exclusive", "auto_delete"}, "False")
                    @@ Default({"arguments"}, "None") @@ Default({"name"}, "''"), FALSE)
      [] o \in {"queue_bind", "queue_unbind"} ->
            Sig(<<"queue_name", "exchange_name", "routing_key", "arguments">>, {},
                Default({"arguments"}, "None"), FALSE)
      [] o = "queue_delete" ->
            Sig(<<"queue_name">>, {"if_empty", "if_unused"},
                Default({"if_empty", "if_unused"}, "False"), FALSE)
      [] o = "queue_purge" ->
            Sig(<<"queue_name">>, {}, Default({}, ""), FALSE)
      [] o = "basic_consume" ->
            Sig(<<"queue_name", "consumer_tag">>,
                {"no_local", "no_ack", "exclusive", "auto_ack", "arguments"},
                Default({"no_local", "no_ack", "exclusive"}, "False")
                    @@ Default({"auto_ack"}, "True") @@ Default({"arguments"}, "None")
                    @@ Default({"consumer_tag"}, "''"), FALSE)
      [] o = "basic_publish" ->
            Sig(<<"exchange_name", "routing_key", "body">>,
                {"header", "mandatory", "immediate"},
                Default({"header"}, "None") @@ Default({"mandatory"}, "True")
                    @@ Default({"immediate"}, "False"), FALSE)
      [] o = "basic_get" ->
            Sig(<<"queue">>, {"no_ack"}, Default({"no_ack"}, "False"), FALSE)

\* the signatures ChannelDelegate defines: three of them take **arguments
ChannelDelegateSig(o) ==
    CASE o \in {"exchange_bind", "exchange_unbind"} ->
            Sig(<<"destination", "source", "routing_key">>, {}, Default({}, ""), TRUE)
      [] o = "queue_unbind" ->
            Sig(<<"queue_name", "exchange_name", "routing_key">>, {}, Default({}, ""), TRUE)
      [] OTHER -> ChannelLikeSig(o)

\* Python's binding of a call to a signature: TypeError, or the value of
\* every parameter (args) and the keywords collected by **kwargs (extra)
Bind(sig, call) ==
    LET npos == Len(call.pos)
        known == Range(sig.pos) \cup sig.kwonly
        bypos == {sig.pos[i] : i \in 1..(IF npos <= Len(sig.pos) THEN npos ELSE 0)}
        extra == DOMAIN call.kw \ known
        given == bypos \cup (DOMAIN call.kw \cap known)
        failed == \/ npos > Len(sig.pos)
                  \/ DOMAIN call.kw \cap bypos # {}
                  \/ (extra # {} /\ ~sig.varkw)
                  \/ known \ (given \cup DOMAIN sig.defaults) # {}
    IN  IF failed
        THEN [exc |-> "TypeError", args |-> [n \in {} |-> <<>>], extra |-> [n \in {} |-> <<>>]]
        ELSE [exc |-> "none",
              args |-> [n \in known |->
                          IF n \in bypos
                          THEN call.pos[CHOOSE i \in 1..npos : sig.pos[i] = n]
                          ELSE IF n \in DOMAIN call.kw THEN call.kw[n]
                          ELSE sig.defaults[n]],
              extra |-> [n \in extra |-> call.kw[n]]]

\* the call a ChannelDelegate method makes on self._delegate
Forward(o, b) ==
    IF o = "exchange_delete"
    THEN [op |-> o, pos |-> <<b.args["name"]>>,
          kw |-> [n \in {"if_unused"} |-> b.args[n]]]
    ELSE [op |-> o, pos |-> <<>>, kw |-> b.args @@ b.extra]

\* the wrapped channel runs the operation: its effect is the operation with
\* the value of every parameter; it returns or raises what dg_wrapped says
RunWrapped(call) ==
    LET b == Bind(ChannelLikeSig(call.op), call) IN
    IF b.exc # "none"
    THEN [exc |-> b.exc, effects |-> <<>>]
    ELSE [exc |-> IF dg_wrapped = "ok" THEN "none" ELSE dg_wrapped,
          effects |-> <<[op |-> call.op, args |-> b.args]>>]

\* the same call made on a ChannelDelegate wrapping that channel
RunDelegate(call) ==
    LET b == Bind(ChannelDelegateSig(call.op), call) IN
    IF b.exc # "none"
    THEN [exc |-> b.exc, effects |-> <<>>]
    ELSE RunWrapped(Forward(call.op, b))

\* the calls tried: the first npos parameters positionally, and at most one
\* keyword, which is a parameter not passed positionally or an unknown name
CallsOf(o) ==
    LET s == ChannelLikeSig(o)
        known == Range(s.pos) \cup s.kwonly
    IN  { [op |-> o,
           pos |-> [i \in 1..npos |-> <<"passed", s.pos[i]>>],
           kw |-> [n \in K |-> <<"passed", n>>]] :
             npos \in 0..Len(s.pos),
             K \in {{}} \cup {{n} : n \in known \cup {"x_match"}} }

Calls == UNION {CallsOf(o) : o \in DelegateOps}

DelegateInit ==
    /\ ChannelInit
    /\ TasksInit
    /\ DeliveryInit
    /\ ChannelsInit
    /\ c_phase = "off"
    /\ c_payload = None
    /\ c_body = <<>>
    /\ c_result = NoCodecResult
    /\ conn = ConnOpen
    /\ dg_call \in Calls
    /\ dg_wrapped \in {"ok", "ClosedResourceError"}
    /\ dg_direct = None
    /\ dg_via = None

CallDirect ==
    /\ dg_call # NoCall
    /\ dg_direct = None
    /\ dg_direct' = Some(RunWrapped(dg_call))
    /\ UNCHANGED <<chan_vars, task_vars, env_vars, codec_vars, deliv_vars, mc_vars,
                   dg_call, dg_wrapped, dg_via>>

CallViaDelegate ==
    /\ dg_call # NoCall
    /\ dg_via = None
    /\ dg_via' = Some(RunDelegate(dg_call))
    /\ UNCHANGED <<chan_vars, task_vars, env_vars, codec_vars, deliv_vars, mc_vars,
                   dg_call, dg_wrapped, dg_direct>>

DelegateNext == CallDirect \/ CallViaDelegate

SpecDelegate == DelegateInit /\ [][DelegateNext]_vars

(***************************************************************************)
(* Properties                                                              *)
(***************************************************************************)
FramesOf(t) == SelectSeq(wire, LAMBDA f : f.task = t)
IsPrefix(s, r) == Len(s) <= Len(r) /\ \A i \in 1..Len(s) : s[i] = r[i]

\* task t has sent its request method frame and has neither got its reply nor failed
Outstanding(t) ==
    /\ op[t].kind = "queue_declare"
    /\ pc[t] \in {"receive_frame", "recv_nowait", "recv_wait", "recv_got"}

\* C1: on the channel at most one synchronous request is outstanding at any
\* instant: while a caller is between sending its request method frame and
\* receiving its reply (or failing), no other caller has sent a request.
C1_AtMostOneOutstanding ==
    Cardinality({t \in Tasks : Outstanding(t)}) <= 1

\* a request is outstanding while another caller waits for the channel lock
C1_Witness ==
    \E t, u \in Tasks :
        /\ t # u
        /\ Outstanding(t) /\ pc[t] = "recv_wait"
        /\ op[u].kind = "queue_declare" /\ pc[u] = "wait_lock"

\* the frames a complete basic_publish with arguments o by task t emits
PublishFrames(t, o) ==
    <<WireMethod(t, "BasicPublishPayload", ""), WireHeader(t, o.body_len)>>
        \o [i \in 1..NumBodyFrames(o.body_len) |-> WireBody(t)]

\* C2: every basic_publish emits exactly one Basic.Publish method frame, then
\* exactly one header frame whose body length is len(body), then the body
\* frames (all of them once it has returned), and no frame of another
\* operation of the channel is written between two frames of one publish.
C2_PublishFramesContiguous ==
    \A t \in Tasks :
        op[t].kind = "basic_publish" =>
            /\ IsPrefix(FramesOf(t), PublishFrames(t, op[t]))
            /\ result[t].kind = "ok" => FramesOf(t) = PublishFrames(t, op[t])
            /\ \A i, j \in DOMAIN wire :
                  (i < j /\ wire[i].task = t /\ wire[j].task = t) =>
                      \A k \in i..j : wire[k].task = t

\* a publish with body frames returned, and another operation that had to
\* wait for it wrote its frames after the publish's last body frame
C2_Witness ==
    \E t, u \in Tasks :
        /\ t # u
        /\ op[t].kind = "basic_publish" /\ op[t].body_len = MaxBody
        /\ result[t].kind = "ok"
        /\ FramesOf(u) # <<>>
        /\ wire[Len(wire)].task = u
        /\ wire[1].task = t

\* C3: when _close(payload) runs while a requester is blocked in
\* _receive_frame, the requester is eventually woken and fails with
\* UnexpectedCloseError carrying the recorded close payload.
C3_BlockedRequesterWoken ==
    \A t \in Tasks :
        (pc[t] = "recv_wait" /\ _close_info # None)
            ~> (result[t].kind = "UnexpectedCloseError"
                /\ Some(result[t].value) = _close_info)

\* C4: once the peer has closed the channel, every read of a reply that
\* fails in _receive_frame yields the recorded close reason as
\* UnexpectedCloseError, never a generic closed-resource error.
C4_ReadAfterCloseYieldsReason ==
    \A t \in Tasks :
        (pc[t] = "done" /\ result[t].at = "receive") =>
            /\ result[t].kind = "UnexpectedCloseError"
            /\ Some(result[t].value) = _close_info

\* C5: queue_declare or basic_publish called on a channel that is not open
\* fails at entry with ClosedResourceError, writes no frame, does not take
\* the lock and leaves the channel state unchanged.
C5_ClosedEntryFails ==
    [][\A t \in Tasks :
          (pc[t] = "idle" /\ pc'[t] # "idle" /\ ~_open) =>
              /\ pc'[t] = "done"
              /\ result'[t] = Raised("ClosedResourceError", "entry")
              /\ UNCHANGED <<wire, _lock, _open, _close_info, _server_flow_stopped,
                             _client_flow_stopped, reply, delivery>>]_vars

\* one operation failed at entry before the channel was opened and another
\* after the peer had closed it; no frame was written
C5_Witness ==
    \E t, u \in Tasks :
        /\ t # u
        /\ result[t] = Raised("ClosedResourceError", "entry")
        /\ op[t].kind = "queue_declare"
        /\ result[u] = Raised("ClosedResourceError", "entry")
        /\ op[u].kind = "basic_publish"
        /\ _close_info # None
        /\ result[Opener].kind = "ok"
        /\ wire = <<>>

\* C6: while the server has stopped flow on the channel, basic_publish writes
\* no Basic.Publish method, header or body frame.
C6_NoPublishFrameWhileFlowStopped ==
    [][_server_flow_stopped =>
          ~(/\ Len(wire') = Len(wire) + 1
            /\ op[wire'[Len(wire')].task].kind = "basic_publish")]_vars

\* C7: the reply to a request whose caller was cancelled is never returned
\* to a later request on the channel.
C7_CancelledReplyNotMisattributed ==
    \A t \in Tasks :
        (op[t].kind = "queue_declare" /\ result[t].kind = "ok") =>
            ~(got[t].for # t /\ result[got[t].for].kind = "Cancelled")

\* C9: queue_declare returns the name, message_count and consumer_count of
\* the Queue.DeclareOk reply it received.
C9_DeclareReturnsFullResult ==
    \A t \in Tasks :
        (op[t].kind = "queue_declare" /\ result[t].kind = "ok") =>
            result[t].value = [name |-> got[t].name,
                               message_count |-> got[t].message_count,
                               consumer_count |-> got[t].consumer_count]

\* C8: for every payload variant registered in PAYLOAD_TYPES and every value
\* P of it, deserialise_payload(serialise_payload(P)) is P: the same variant
\* and the same value for every declared field.
C8_RoundTrip ==
    (c_phase = "decoded" /\ c_payload # None) =>
        /\ c_result.exc = "none"
        /\ [typ |-> c_result.typ, vals |-> c_result.vals] = c_payload[1]

\* the (class, method) header of the body on the wire is not in the registry
HeaderUnregistered(body) ==
    LET k == DecodeUInt(SubSeq(body, 1, 2))
        m == DecodeUInt(SubSeq(body, 3, 4))
    IN  ~(k \in DOMAIN PAYLOAD_TYPES /\ m \in DOMAIN PAYLOAD_TYPES[k])

C11_EmittedPayloadsClientSide ==
    \A i \in DOMAIN wire :
        wire[i].ftype = "method" => PayloadClass(wire[i].ptype).is_client_side

\* C12: frames handed to the delivery queue by _enqueue_delivery are taken
\* from the delivery stream in exactly the order they were enqueued, with
\* none lost, duplicated or reordered while the channel stays open: what was
\* enqueued is what was taken, then what is buffered, then what the blocked
\* _enqueue_delivery still holds.
C12_DeliveriesInOrder ==
    /\ IsPrefix(d_received, d_enqueued)
    /\ ~delivery.recv_closed =>
          d_enqueued = d_received \o delivery.buffer \o delivery.waiting_senders

\* on an open channel a frame was taken, the buffer is full of the frames
\* after it, and the blocked _enqueue_delivery holds the newest one
C12_Witness ==
    /\ _open /\ ~delivery.recv_closed
    /\ d_received # <<>>
    /\ Len(delivery.buffer) = StreamBufferSize
    /\ delivery.waiting_senders # <<>>

\* C13: the number of frames buffered in the delivery queue
\* (current_buffer_size) is at most stream_buffer_size (max_buffer_size);
\* when the queue is full _enqueue_delivery suspends, and it completes only
\* in a step where a consumer takes a frame.
C13_BufferBounded ==
    /\ [](current_buffer_size <= StreamBufferSize)
    /\ [][ /\ (/\ Len(d_enqueued') = Len(d_enqueued) + 1
               /\ ~delivery.recv_closed
               /\ current_buffer_size = StreamBufferSize)
              => (disp'.pc = "delivery_wait" /\ delivery'.buffer = delivery.buffer)
           /\ (disp.pc = "delivery_wait" /\ disp'.pc # "delivery_wait")
              => (/\ Len(d_received') = Len(d_received) + 1
                  /\ d_enqueued' = d_enqueued) ]_vars

\* the queue is full and _enqueue_delivery is suspended with one more frame
C13_Witness ==
    /\ current_buffer_size = StreamBufferSize
    /\ disp.pc = "delivery_wait"
    /\ Len(delivery.waiting_senders) = 1

ReplyFramesNow ==
    {OpenOkFrame} \cup OtherFrames \cup
    (IF answered < Len(Requests)
     THEN {DeclareOkFrame(Requests[answered + 1].task, v) : v \in DeclareOkValues}
     ELSE {})

\* C15: the reply slot is a rendezvous: no reply frame is ever buffered in
\* the channel, a frame _enqueue_regular could not hand over stays with the
\* suspended sender, and _enqueue_regular completes only in a step in which a
\* task receiving on the reply stream gets exactly the frame enqueued.
C15_ReplySlotRendezvous ==
    /\ [](/\ reply.buffer = <<>>
          /\ Len(reply.waiting_senders) <= 1
          /\ (reply.waiting_senders # <<>>) <=> (disp.pc = "send_wait"))
    /\ [][ /\ (/\ disp.pc = "idle" /\ disp'.pc = "idle"
               /\ ~reply.recv_closed
               /\ (answered' # answered \/ openok_sent' # openok_sent))
              => \E p \in Procs :
                    /\ pc[p] = "recv_wait" /\ pc'[p] = "recv_got"
                    /\ got'[p] \in ReplyFramesNow
                    /\ \A q \in Procs \ {p} : got'[q] = got[q]
           /\ (disp.pc = "send_wait" /\ disp'.pc # "send_wait")
              => \E p \in Procs :
                    /\ pc[p] = "recv_nowait" /\ pc'[p] = "done"
                    /\ got'[p] = Head(reply.waiting_senders)
                    /\ \A q \in Procs \ {p} : got'[q] = got[q] ]_vars

\* a reply was enqueued before its requester started to receive: the
\* dispatcher is suspended in _enqueue_regular with the frame
C15_Witness ==
    /\ disp.pc = "send_wait"
    /\ reply.waiting_senders # <<>>
    /\ Head(reply.waiting_senders).ptype = "QueueDeclareOkPayload"
    /\ \E t \in Tasks : pc[t] \in {"receive_frame", "recv_nowait"}

\* C16: the channel lifecycle is one-way: the channel becomes open only in
\* the step in which _wait_until_open returns with a Channel.OpenOk, and once
\* _close has run (it records _close_info) the channel is not open in any
\* later state.
C16_LifecycleOneWay ==
    [][ /\ (~_open /\ _open')
           => (/\ pc[Opener] # "done" /\ pc'[Opener] = "done"
               /\ got'[Opener] = OpenOkFrame)
        /\ _close_info # None => ~_open' ]_vars

\* C17: _wait_until_open marks the channel open only if the first frame it
\* receives on the reply slot is a method frame with a ChannelOpenOkPayload;
\* for any other frame it raises ValueError and the channel stays not open.
C17_OpenOnlyOnOpenOk ==
    [][ /\ (/\ pc[Opener] # "done" /\ pc'[Opener] = "done"
            /\ result'[Opener].kind # "ClosedResourceError")
           => IF /\ got'[Opener].ftype = "MethodFrame"
                 /\ got'[Opener].ptype = "ChannelOpenOkPayload"
              THEN _open' /\ result'[Opener].kind = "ok"
              ELSE /\ result'[Opener].kind = "ValueError"
                   /\ ~_open /\ ~_open'
        /\ (~_open /\ _open')
           => (/\ pc[Opener] # "done" /\ pc'[Opener] = "done"
               /\ got[Opener] \in {NoFrame, got'[Opener]}
               /\ got'[Opener].ftype = "MethodFrame"
               /\ got'[Opener].ptype = "ChannelOpenOkPayload") ]_vars

\* the first frame was a method frame with another payload: ValueError, not open
C17_Witness ==
    /\ pc[Opener] = "done"
    /\ result[Opener].kind = "ValueError"
    /\ got[Opener].ftype = "MethodFrame"
    /\ got[Opener].ptype # "ChannelOpenOkPayload"
    /\ ~_open

\* the tasks of channel c inside its `async with self._lock` section
InSection(c) ==
    {t \in Tasks : mc_pc[<<c, t>>] \in {"send_request", "receive_frame", "pub_method",
                                        "pub_header", "pub_body", "pub_exit"}}

\* C18: each channel has its own lock: a task waits for a channel's lock only
\* behind an operation of that same channel, so whatever another channel's
\* lock holder does (a publish in progress, a request waiting for its reply),
\* an operation on a channel with no operation in progress acquires the lock
\* when called, and the holder's next frame write is enabled.
C18_ChannelsHaveOwnLocks ==
    \A c \in ChannelIds : \A t \in Tasks :
        /\ mc_pc[<<c, t>>] = "wait_lock" => InSection(c) # {}
        /\ t \in InSection(c) => channel_lock(c).owner = Some(<<c, t>>)
        /\ (mc_pc[<<c, t>>] = "idle" /\ mc_open[c] /\ InSection(c) = {})
              => ENABLED (/\ McCall(c, t, "basic_publish")
                          /\ mc_pc'[<<c, t>>] = "pub_method")
        /\ mc_pc[<<c, t>>] \in {"send_request", "pub_method", "pub_header", "pub_body"}
              => ENABLED McSendFrame(c, t)

\* channel 1 has a request waiting for its reply and a second caller waiting
\* for its lock, while a publish on channel 2 holds channel 2's lock and has
\* written its method and header frames
C18_Witness ==
    \E t, u, w \in Tasks :
        /\ mc_pc[<<1, t>>] = "receive_frame"
        /\ mc_pc[<<1, w>>] = "wait_lock"
        /\ mc_pc[<<2, u>>] = "pub_body" /\ mc_sent[<<2, u>>] = 2
        /\ locks[lock_of(1)].owner = Some(<<1, t>>)
        /\ locks[lock_of(2)].owner = Some(<<2, u>>)

\* C19: while _server_flow_stopped is true on the channel, queue_declare is
\* not blocked by it: every step of the request (taking the free lock,
\* writing the Queue.Declare frame, entering and finishing the receive of the
\* reply) that is enabled with the flag false is enabled with the flag true.
C19_FlowDoesNotBlockSync ==
    _server_flow_stopped =>
        \A t \in Tasks :
            /\ (pc[t] = "idle" /\ _open)
                  => ENABLED (queue_declare(t) /\ pc'[t] # "done")
            /\ (op[t].kind = "queue_declare" /\ pc[t] = "send_request")
                  => ENABLED SendRequest(t)
            /\ (op[t].kind = "queue_declare" /\ pc[t] = "receive_frame")
                  => ENABLED ReceiveFrameEnter(t)
            /\ (op[t].kind = "queue_declare" /\ pc[t] = "recv_nowait")
                  => ENABLED ReceiveNowait(t)
            /\ (op[t].kind = "queue_declare" /\ pc[t] = "recv_got")
                  => ENABLED (ReceiveWoken(t) /\ result'[t].kind = "ok")

\* the flow is stopped, and a queue_declare has written its request (the only
\* frame on the wire) and was handed its reply
C19_Witness ==
    /\ _server_flow_stopped
    /\ \E t \in Tasks :
          /\ op[t].kind = "queue_declare"
          /\ pc[t] = "recv_got"
          /\ got[t].for = t
          /\ Len(wire) = 1

\* C20: the registry is consistent with the variants' own tags: for every
\* entry PAYLOAD_TYPES[c][m] = T, T.klass = c and T.method = m, and no two
\* registered variants share a (klass, method) pair; hence the 4-byte
\* big-endian class/method header serialise_payload writes for a payload of
\* type T makes deserialise_payload dispatch to T.
C20_RegistryConsistent ==
    /\ \A c \in DOMAIN PAYLOAD_TYPES : \A m \in DOMAIN PAYLOAD_TYPES[c] :
          /\ PayloadClass(PAYLOAD_TYPES[c][m]).klass = c
          /\ PayloadClass(PAYLOAD_TYPES[c][m]).method = m
    /\ \A T, U \in PayloadTypeNames :
          (/\ PayloadClass(T).klass = PayloadClass(U).klass
           /\ PayloadClass(T).method = PayloadClass(U).method) => T = U
    /\ (c_payload # None /\ c_phase \in {"wire", "decoded", "raised"})
          => LET T == c_payload[1].typ IN
             /\ Len(c_body) >= 4
             /\ SubSeq(c_body, 1, 4) = <<PayloadClass(T).klass \div 256,
                                         PayloadClass(T).klass % 256,
                                         PayloadClass(T).method \div 256,
                                         PayloadClass(T).method % 256>>
             /\ c_phase # "wire" => (c_phase = "decoded" /\ c_result.typ = T)

\* a BasicPublishPayload, which shares method id 40 with ConnectionOpenPayload
\* and ChannelClosePayload, was serialised and dispatched to its own class
C20_Witness ==
    /\ c_phase = "decoded"
    /\ c_payload # None
    /\ c_payload[1].typ = "BasicPublishPayload"
    /\ c_result.typ = "BasicPublishPayload"

\* C21: every operation of ChannelDelegate forwards to the wrapped channel
\* exactly once with the same argument values and returns or raises what the
\* wrapped operation does: the same call made on the channel and made
\* through the delegate gives the same channel effects and the same result.
C21_DelegateForwardsSame ==
    (dg_direct # None /\ dg_via # None) => dg_direct = dg_via

\* C22: a channel operation never writes a frame on a channel that is closed
\* at the time of the write: every step that appends a frame to the wire is
\* taken while the channel is open, also when _close ran after the caller
\* passed its entry check.
C22_NoWriteOnClosedChannel ==
    [][wire' # wire => _open]_vars

\* the pcs of a task inside `async with self._lock`
LockedPcs ==
    {"send_request", "receive_frame", "recv_nowait", "recv_wait", "recv_got",
     "pub_method", "pub_header", "pub_body", "pub_exit"}

\* C23: the channel lock is released on every exit of _send_and_receive_frame
\* and basic_publish, normal or exceptional: the lock is owned only by a task
\* inside a locked section, and when no operation is in progress on the
\* channel the lock is free.
C23_LockReleasedOnEveryExit ==
    /\ \A t \in Tasks : _lock.owner = Some(t) => pc[t] \in LockedPcs
    /\ (\A t \in Tasks : pc[t] \in {"idle", "done"})
          => _lock = [owner |-> None, waiters |-> <<>>]

\* one operation ended with a failed frame write, another with
\* ClosedResourceError from _receive_frame, nothing is in progress and the
\* lock is free
C23_Witness ==
    /\ \E t, u \in Tasks :
          /\ pc[t] = "done" /\ result[t] = Raised("BrokenResourceError", "write")
          /\ pc[u] = "done" /\ result[u] = Raised("ClosedResourceError", "receive")
    /\ \A t \in Tasks : pc[t] = "done"
    /\ _lock.owner = None

\* no operation was cancelled and _close has not run
NoCancelNoClose ==
    /\ _close_info = None
    /\ \A t \in Tasks : result[t].kind # "Cancelled"

\* C24: replies are attributed to their own requests: with no cancellation
\* and no close, the peer answering the requests in the order it received
\* them, every frame handed to a queue_declare caller is the reply to the
\* request that caller sent, and no reply is handed to a basic_publish caller.
C24_RepliesAttributed ==
    NoCancelNoClose =>
        \A t \in Tasks :
            /\ op[t].kind = "basic_publish" => got[t] = NoFrame
            /\ got[t] # NoFrame =>
                  /\ op[t].kind = "queue_declare"
                  /\ got[t].ptype = "QueueDeclareOkPayload"
                  /\ got[t].for = t
                  /\ \E i \in 1..answered : Requests[i].task = t

\* two concurrent queue_declare callers have both returned, each with the
\* reply to its own request
C24_Witness ==
    /\ NoCancelNoClose
    /\ answered = 2
    /\ \A t \in Tasks :
          /\ op[t].kind = "queue_declare"
          /\ pc[t] = "done" /\ result[t].kind = "ok"
          /\ got[t].for = t

\* C25: if the channel stays open and the peer eventually replies to every
\* request, then under fair scheduling every queue_declare call eventually
\* returns and every caller waiting for the channel lock eventually acquires
\* it: the channel lock and the rendezvous reply slot do not deadlock.
C25_DeclareEventuallyReturns ==
    \A t \in Tasks :
        /\ (pc[t] \notin {"idle", "done"}) ~> (pc[t] = "done" \/ _close_info # None)
        /\ (pc[t] = "wait_lock") ~> (pc[t] # "wait_lock" \/ _close_info # None)

\* on an open channel the first queue_declare has returned with its reply and
\* the second queue_declare caller now owns the lock
C25_Witness ==
    /\ NoCancelNoClose
    /\ answered = 1
    /\ \E t, u \in Tasks :
          /\ op[t].kind = "queue_declare" /\ pc[t] = "done" /\ result[t].kind = "ok"
          /\ op[u].kind = "queue_declare" /\ pc[u] = "send_request"
          /\ _lock.owner = Some(u)

\* C26: when the reply stream ends while a requester reads it, _receive_frame
\* raises UnexpectedCloseError if and only if a close_info has been recorded
\* on the channel, and AMQPStateError if none has; no frame is returned.
C26_StreamEndRaisesByCloseInfo ==
    [][\A t \in Tasks :
          (/\ pc[t] = "recv_nowait" /\ pc'[t] = "done"
           /\ result'[t].kind \notin {"ok", "Cancelled"})
          => /\ got'[t] = NoFrame
             /\ (result'[t].kind = "UnexpectedCloseError") <=> (_close_info # None)
             /\ (result'[t].kind = "AMQPStateError") <=> (_close_info = None)]_vars

\* C27: queue_declare returns a result only from a Queue.DeclareOk reply: a
\* queue_declare that returned successfully was handed a method frame whose
\* payload is a QueueDeclareOkPayload.
C27_DeclareResultOnlyFromDeclareOk ==
    \A t \in Tasks :
        (op[t].kind = "queue_declare" /\ result[t].kind = "ok") =>
            (got[t].ftype = "MethodFrame" /\ got[t].ptype = "QueueDeclareOkPayload")

\* C28 (as stated): once _close has run, no frame reaches application code:
\* no queue_declare returns a result taken from a frame and the consumer
\* returns no delivery.
C28_NoFrameHandedAfterClose ==
    [][_close_info # None =>
          /\ \A t \in Tasks :
                ~(pc[t] \in {"recv_got", "recv_nowait"} /\ pc'[t] = "done"
                    /\ result'[t].kind = "ok")
          /\ ~(consumer.pc = "recv_got" /\ consumer'.pc = "idle")
          /\ d_received' = d_received]_vars

\* C28 (amended): once _close has run, the channel's streams hand over
\* nothing: no receiver of the reply stream and no consumer is given a frame,
\* nothing is added to or taken from either buffer, no sender is left waiting,
\* and every _enqueue_regular and _enqueue_delivery called afterwards fails
\* with BrokenResourceError.  Only a receiver that had been handed its frame
\* before _close ran still returns it.
C28_StreamsHandNothingAfterClose ==
    [][_close_info # None =>
          /\ got' = got
          /\ d_received' = d_received
          /\ reply'.buffer = reply.buffer
          /\ delivery'.buffer = delivery.buffer
          /\ reply'.waiting_senders = reply.waiting_senders
          /\ delivery'.waiting_senders = delivery.waiting_senders
          /\ (consumer'.pc = "recv_got" => consumer.pc = "recv_got")
          /\ (d_enqueued' # d_enqueued \/ answered' # answered \/ openok_sent' # openok_sent)
                => disp'.err = "BrokenResourceError"]_vars

\* the channel was closed with deliveries in the buffer; a later enqueue
\* failed, the consumer's receive failed, and the deliveries are still there
C28_Witness ==
    /\ _close_info # None
    /\ delivery.buffer # <<>>
    /\ disp.err = "BrokenResourceError"
    /\ consumer.err = "ClosedResourceError"
    /\ Len(d_enqueued) > Len(d_received) + Len(delivery.buffer)

\* the step in which task t's _receive_frame ends, and whether it returned a frame
ReceiveFrameEnds(t) ==
    /\ pc[t] \in {"receive_frame", "recv_nowait", "recv_wait", "recv_got"}
    /\ pc'[t] = "done"
ReceiveFrameSucceeds(t) ==
    /\ ReceiveFrameEnds(t)
    /\ result'[t].at = "return"

\* C29: a successful _receive_frame sets the event that is the channel's
\* current _recv_wakeup and replaces it with a fresh, unset event; every
\* other step, the failing exits of _receive_frame among them, leaves the
\* event as it is: not set and not replaced.  The current event is never set.
C29_WakeupSetAndReplacedOnSuccess ==
    /\ [](_recv_wakeup \notin events_set)
    /\ [][IF \E t \in Tasks : ReceiveFrameSucceeds(t)
          THEN /\ events_set' = events_set \cup {_recv_wakeup}
               /\ _recv_wakeup' # _recv_wakeup
               /\ _recv_wakeup' \notin events_set'
          ELSE /\ events_set' = events_set
               /\ _recv_wakeup' = _recv_wakeup]_vars

\* one _receive_frame returned a frame and set its event, another failed
C29_Witness ==
    \E t, u \in Tasks :
        /\ pc[t] = "done" /\ op[t].kind = "queue_declare" /\ result[t].kind = "ok"
        /\ pc[u] = "done" /\ op[u].kind = "queue_declare"
        /\ result[u].kind = "ClosedResourceError" /\ result[u].at = "receive"
        /\ events_set # {}

====
